---- MODULE Spec2Model ----
(***************************************************************************)
(* Model of package json2xml (convert.go): the Converter that turns a      *)
(* stream of JSON tokens into a stream of XML tokens, and the Convert      *)
(* loop that drives it into an XML encoder.                                *)
(***************************************************************************)
EXTENDS Integers, Sequences, FiniteSets, TLC

\* ------------------------------------------------------------------------
\* Bounds of the model
\* ------------------------------------------------------------------------

\* The JSON source delivers at most this many tokens before it ends.
MaxTokens == 4

\* ------------------------------------------------------------------------
\* Errors (convert.go:41-45), io.EOF, and the failures of the collaborators
\* ------------------------------------------------------------------------

NoErr == "nil"

ErrInvalidKey == "invalid key type"

ErrUnknownToken == "unknown token type"

ErrInvalidToken == "invalid token"

EOF == "EOF"

\* any other failure of the JSONDecoder
ErrSource == "source failure"

\* a failure of the XMLEncoder
ErrSink == "sink failure"

\* ------------------------------------------------------------------------
\* ttype (convert.go:52-63)
\* ------------------------------------------------------------------------

typObject == 0

typArray == 1

typBool == 2

typNumber == 3

typString == 4

typNull == 5

ttypeNames == <<"object", "array", "boolean", "number", "string", "null">>

\* ttypeNames[typ]: Go indexes from 0
TypeName(typ) == ttypeNames[typ + 1]

\* ------------------------------------------------------------------------
\* Text.  A Go string is modelled as the sequence of its characters.
\* ------------------------------------------------------------------------

cTrue == <<"t", "r", "u", "e">>

cFalse == <<"f", "a", "l", "s", "e">>

Digit(d) == <<"0", "1", "2", "3", "4", "5", "6", "7", "8", "9">>[d + 1]

RECURSIVE Digits(_)
\* the decimal digits of a natural number
Digits(n) == IF n < 10 THEN <<Digit(n)>> ELSE Append(Digits(n \div 10), Digit(n % 10))

RECURSIVE Zeros(_)
Zeros(n) == IF n <= 0 THEN <<>> ELSE <<"0">> \o Zeros(n - 1)

\* FormatFloat with format 'e': one digit, the other digits as the fraction,
\* and a decimal exponent
FormatFloat_e(neg, mant, exp) ==
    LET ds == Digits(mant)
        e == exp + Len(ds) - 1
    IN (IF neg THEN <<"-">> ELSE <<>>)
       \o <<ds[1]>> \o (IF Len(ds) > 1 THEN <<".">> \o SubSeq(ds, 2, Len(ds)) ELSE <<>>)
       \o <<"e", IF e < 0 THEN "-" ELSE "+">>
       \o (IF e < 10 /\ e > -10 THEN <<"0">> ELSE <<>>)
       \o Digits(IF e < 0 THEN -e ELSE e)

\* strconv.FormatFloat(token, 'f', -1, 64) (convert.go:164).  A finite
\* float64 is represented by its shortest round-tripping decimal: sign,
\* digit string mant (no trailing zero unless the value is 0) and a decimal
\* exponent, value = (-1)^neg * mant * 10^exp.  Format 'f' with precision -1
\* writes those digits in positional notation, never with an exponent.
FormatFloat(neg, mant, exp) ==
    LET ds == Digits(mant)
        n == Len(ds)
        body == IF mant = 0 THEN <<"0">>
                ELSE IF exp >= 0 THEN ds \o Zeros(exp)
                ELSE IF n > -exp
                     THEN SubSeq(ds, 1, n + exp) \o <<".">> \o SubSeq(ds, n + exp + 1, n)
                     ELSE <<"0", ".">> \o Zeros(-exp - n) \o ds
    IN (IF neg THEN <<"-">> ELSE <<>>) \o body

\* ------------------------------------------------------------------------
\* JSON tokens (json.Token as delivered by JSONDecoder.Token, convert.go:71-73)
\* ------------------------------------------------------------------------

\* kinds of json.Token: the dynamic type of the interface value
KDelim == "json.Delim"

KBool == "bool"

KFloat == "float64"

KNumber == "json.Number"

KString == "string"

KNil == "nil"

\* a dynamic type that Token's type switch does not list
KOther == "int"

JTok(k, s, b, neg, mant, exp) ==
    [k |-> k, s |-> s, b |-> b, neg |-> neg, mant |-> mant, exp |-> exp]

JDelim(ch) == JTok(KDelim, <<ch>>, FALSE, FALSE, 0, 0)

JBool(b) == JTok(KBool, <<>>, b, FALSE, 0, 0)

JFloat(neg, mant, exp) == JTok(KFloat, <<>>, FALSE, neg, mant, exp)

JNumber(s) == JTok(KNumber, s, FALSE, FALSE, 0, 0)

JString(s) == JTok(KString, s, FALSE, FALSE, 0, 0)

JNil == JTok(KNil, <<>>, FALSE, FALSE, 0, 0)

JOther == JTok(KOther, <<>>, FALSE, FALSE, 0, 0)

ObjOpen == JDelim("{")

ObjClose == JDelim("}")

ArrOpen == JDelim("[")

ArrClose == JDelim("]")

\* The tokens a source may deliver in the model.
Delims == {ObjOpen, ObjClose, ArrOpen, ArrClose, JDelim(":")}

Strings == {JString(<<>>), JString(<<"a">>)}

Scalars ==
    {JBool(TRUE), JBool(FALSE),
     JFloat(TRUE, 18262, -4),
     JNumber(<<"1", ".", "5", "0">>)}
    \cup Strings

Tokens == Delims \cup Scalars \cup {JNil, JOther}

\* A result of JSONDecoder.Token(): a token with a nil error, or an error.
SrcTok(tok) == [tok |-> tok, err |-> NoErr]

SrcErr(e) == [tok |-> JNil, err |-> e]

\* What the source may return on a call made after it has delivered n tokens.
SrcResults(n) ==
    (IF n < MaxTokens THEN {SrcTok(t) : t \in Tokens} ELSE {})
    \cup {SrcErr(EOF), SrcErr(ErrSource)}

\* ------------------------------------------------------------------------
\* XML tokens (xml.StartElement, xml.CharData, xml.EndElement)
\* ------------------------------------------------------------------------

XNone == [t |-> "nil", name |-> "", attr |-> <<>>, text |-> <<>>]

CharData(s) == [t |-> "CharData", name |-> "", attr |-> <<>>, text |-> s]

StartElement(name, attr) == [t |-> "StartElement", name |-> name, attr |-> attr, text |-> <<>>]

EndElement(name) == [t |-> "EndElement", name |-> name, attr |-> <<>>, text |-> <<>>]

Attr(name, value) == [name |-> name, value |-> value]

\* ------------------------------------------------------------------------
\* Converter (convert.go:82-86).  A *string is a sequence of length 0 (nil)
\* or 1 (a pointer to that string).
\* ------------------------------------------------------------------------

Nil == <<>>

Ptr(s) == <<s>>

Top(types) == types[Len(types)]

\* outputEnd that leaves the entry on the stack
outputEnd_nopop(c) ==
    [types |-> c.types, data |-> c.data, tok |-> EndElement(TypeName(Top(c.types)))]

\* outputEnd that closes every open entry at once
outputEnd_clear(c) ==
    [types |-> <<>>, data |-> c.data, tok |-> EndElement(TypeName(Top(c.types)))]

\* outputEnd naming the end-element after the outermost open entry
outputEnd_outermost(c) ==
    [types |-> SubSeq(c.types, 1, Len(c.types) - 1),
     data |-> c.data,
     tok |-> EndElement(TypeName(c.types[1]))]

\* (*Converter).outputEnd (convert.go:207-216)
outputEnd(c) ==
    LET typ == Top(c.types)
    IN [types |-> SubSeq(c.types, 1, Len(c.types) - 1),
        data |-> c.data,
        tok |-> EndElement(TypeName(typ))]

\* outputStart that does not push the type
outputStart_nopush(c, typ, keyName) ==
    [types |-> c.types,
     data |-> c.data,
     tok |-> StartElement(TypeName(typ),
                          IF keyName # Nil THEN <<Attr("name", keyName[1])>> ELSE <<>>)]

\* outputStart that drops the key name
outputStart_noattr(c, typ, keyName) ==
    [types |-> Append(c.types, typ),
     data |-> c.data,
     tok |-> StartElement(TypeName(typ), <<>>)]

\* (*Converter).outputStart (convert.go:183-205)
outputStart(c, typ, keyName) ==
    [types |-> Append(c.types, typ),
     data |-> c.data,
     tok |-> StartElement(TypeName(typ),
                          IF keyName # Nil THEN <<Attr("name", keyName[1])>> ELSE <<>>)]

\* outputType that forgets to store the data
outputType_nodata(c, typ, data, keyName) == outputStart(c, typ, keyName)

\* outputType that stores an empty string for a nil data
outputType_emptydata(c, typ, data, keyName) ==
    outputStart([types |-> c.types, data |-> IF data = Nil THEN Ptr(<<>>) ELSE data],
                typ, keyName)

\* (*Converter).outputType (convert.go:177-181)
outputType(c, typ, data, keyName) ==
    outputStart([types |-> c.types, data |-> data], typ, keyName)

\* The outcome of one call of Token: the converter's fields after the call,
\* the returned (xml.Token, error) and the number of calls made to the source.
Ret(o, pulls) ==
    [types |-> o.types, data |-> o.data, tok |-> o.tok, err |-> NoErr, pulls |-> pulls]

\* a failure that replaces an error of the source by one of the package's own
Fail_masked(c, e, pulls) ==
    [types |-> c.types, data |-> c.data, tok |-> XNone,
     err |-> IF e \in {ErrInvalidKey, ErrUnknownToken, ErrInvalidToken} THEN e
             ELSE ErrInvalidToken,
     pulls |-> pulls]

\* a failure that also resets the converter
Fail_reset(c, e, pulls) ==
    [types |-> <<>>, data |-> Nil, tok |-> XNone, err |-> e, pulls |-> pulls]

\* return nil, err: the converter is left as it is
Fail(c, e, pulls) ==
    [types |-> c.types, data |-> c.data, tok |-> XNone, err |-> e, pulls |-> pulls]

\* the guard of a close delimiter that tests only for an empty stack
Mismatch_emptyonly(c, typ) == Len(c.types) = 0

\* the guard of a close delimiter that accepts any container of the other type
Mismatch_nonempty(c, typ) == Len(c.types) = 0 \/ Top(c.types) \notin {typObject, typArray}

\* the guard of a close delimiter (convert.go:143, 149): no container is open,
\* or the open one is not of type typ
Mismatch(c, typ) == Len(c.types) = 0 \/ Top(c.types) # typ

\* a type assertion that also accepts json.Number, whose underlying type is string
AsString_number(token) == [ok |-> token.k \in {KString, KNumber}, str |-> token.s]

\* tokenStr, ok := token.(string) (convert.go:122)
AsString(token) == [ok |-> token.k = KString, str |-> token.s]

\* the default cases reporting the wrong error
Unknown_invalid(c, pulls) == Fail(c, ErrInvalidToken, pulls)

\* return nil, ErrUnknownToken (convert.go:155, 173)
Unknown(c, pulls) == Fail(c, ErrUnknownToken, pulls)

\* a json.Number normalised by dropping one trailing zero of its fraction
NumberText_trimmed(token) ==
    LET s == token.s
    IN IF Len(s) > 1 /\ s[Len(s)] = "0" /\ \E i \in 1..Len(s) : s[i] = "."
       THEN SubSeq(s, 1, Len(s) - 1)
       ELSE s

\* (*string)(&token) for a json.Number (convert.go:167): the literal's own text
NumberText(token) == token.s

\* the switch on the token (convert.go:135-174)
Dispatch(c, token, keyName, pulls) ==
    CASE token.k = KDelim ->
           (CASE token.s = <<"{">> -> Ret(outputStart(c, typObject, keyName), pulls)
              [] token.s = <<"[">> -> Ret(outputStart(c, typArray, keyName), pulls)
              [] token.s = <<"}">> ->
                   IF Mismatch(c, typObject)
                   THEN Fail(c, ErrInvalidToken, pulls)
                   ELSE Ret(outputEnd(c), pulls)
              [] token.s = <<"]">> ->
                   IF Mismatch(c, typArray)
                   THEN Fail(c, ErrInvalidToken, pulls)
                   ELSE Ret(outputEnd(c), pulls)
              [] OTHER -> Unknown(c, pulls))
      [] token.k = KBool ->
           IF token.b
           THEN Ret(outputType(c, typBool, Ptr(cTrue), keyName), pulls)
           ELSE Ret(outputType(c, typBool, Ptr(cFalse), keyName), pulls)
      [] token.k = KFloat ->
           LET number == FormatFloat(token.neg, token.mant, token.exp)
           IN Ret(outputType(c, typNumber, Ptr(number), keyName), pulls)
      [] token.k = KNumber ->
           Ret(outputType(c, typNumber, Ptr(NumberText(token)), keyName), pulls)
      [] token.k = KString -> Ret(outputType(c, typString, Ptr(token.s), keyName), pulls)
      [] token.k = KNil -> Ret(outputType(c, typNull, Nil, keyName), pulls)
      [] OTHER -> Unknown(c, pulls)

\* (*Converter).Token (convert.go:98-175).  c is the converter, r1 and r2 are
\* what the source returns to the first and to the second call of
\* c.decoder.Token() if the call is made.
Token(c, r1, r2) ==
    IF c.data # Nil
    THEN Ret([types |-> c.types, data |-> Nil, tok |-> CharData(c.data[1])], 0)
    ELSE IF Len(c.types) > 0 /\ Top(c.types) \notin {typObject, typArray}
    THEN Ret(outputEnd(c), 0)
    ELSE IF r1.err # NoErr
    THEN Fail(c, r1.err, 1)
    ELSE IF Len(c.types) > 0 /\ Top(c.types) = typObject /\ r1.tok # ObjClose
    THEN IF ~AsString(r1.tok).ok
         THEN Fail(c, ErrInvalidKey, 1)
         ELSE IF r2.err # NoErr
         THEN Fail(c, r2.err, 2)
         ELSE Dispatch(c, r2.tok, Ptr(AsString(r1.tok).str), 2)
    ELSE Dispatch(c, r1.tok, Nil, 1)

\* ------------------------------------------------------------------------
\* State
\* ------------------------------------------------------------------------

VARIABLES
    types,      \* Converter.types: the nesting stack
    data,       \* Converter.data: the pending char-data
    pulled,     \* history: what every call of decoder.Token() returned
    calls,      \* history: every call of Converter.Token(): the stack it found
                \* (was), what it returned (tok, err), its calls to the source
    sink,       \* history: every call of x.EncodeToken: its argument and result
    pc,         \* position of Convert: "token", "encode" or "done"
    result      \* the error Convert returned (NoErr for nil), once done

vars == <<types, data, pulled, calls, sink, pc, result>>

\* the number of tokens the source has delivered
Delivered == Cardinality({i \in 1..Len(pulled) : pulled[i].err = NoErr})

\* Convert (convert.go:219-223): a Converter with no types and no data
Init ==
    /\ types = <<>>
    /\ data = Nil
    /\ pulled = <<>>
    /\ calls = <<>>
    /\ sink = <<>>
    /\ pc = "token"
    /\ result = NoErr

\* what the source returned during a call that made `pulls` calls to it
Pulls(r1, r2, pulls) ==
    IF pulls = 0 THEN <<>> ELSE IF pulls = 1 THEN <<r1>> ELSE <<r1, r2>>

\* a test of Token's error that returns nil for every error
AfterToken_swallow(err) ==
    IF err # NoErr
    THEN [pc |-> "done", result |-> NoErr]
    ELSE [pc |-> "encode", result |-> NoErr]

\* the test of Token's error in Convert (convert.go:226-232): where the loop
\* goes next and, when it returns, what it returns
AfterToken(err) ==
    IF err # NoErr
    THEN [pc |-> "done", result |-> IF err = EOF THEN NoErr ELSE err]
    ELSE [pc |-> "encode", result |-> NoErr]

\* the test of EncodeToken's error in Convert (convert.go:234-236)
AfterEncode(err) ==
    IF err # NoErr
    THEN [pc |-> "done", result |-> err]
    ELSE [pc |-> "token", result |-> NoErr]

\* tk, err := c.Token() and the test of err (convert.go:225-232), where the
\* source returns r1 to the first and r2 to the second call made to it
TokenStep(r1, r2) ==
    /\ pc = "token"
    /\ LET o == Token([types |-> types, data |-> data], r1, r2)
       IN /\ types' = o.types
          /\ data' = o.data
          /\ pulled' = pulled \o Pulls(r1, r2, o.pulls)
          /\ calls' = Append(calls, [was |-> types, tok |-> o.tok,
                                     err |-> o.err, pulls |-> o.pulls])
          /\ pc' = AfterToken(o.err).pc
          /\ result' = AfterToken(o.err).result
          /\ sink' = sink

\* one turn of Convert's loop up to the test of Token's error, with a source
\* that may return anything
CallToken ==
    \E r1 \in SrcResults(Delivered), r2 \in SrcResults(Delivered + 1) : TokenStep(r1, r2)

\* err = x.EncodeToken(tk) where the encoder returns e (convert.go:234-236)
Encode(e) ==
    /\ pc = "encode"
    /\ sink' = Append(sink, [tok |-> calls[Len(calls)].tok, err |-> e])
    /\ pc' = AfterEncode(e).pc
    /\ result' = AfterEncode(e).result
    /\ UNCHANGED <<types, data, pulled, calls>>

\* the encoder accepts the token
EncodeOk == Encode(NoErr)

\* the encoder fails
EncodeFail == Encode(ErrSink)

Next == CallToken \/ EncodeOk \/ EncodeFail

Spec == Init /\ [][Next]_vars

TypeOK ==
    /\ types \in Seq(typObject..typNull)
    /\ Len(data) <= 1
    /\ pc \in {"token", "encode", "done"}

\* Convert is sequential code that keeps running until it returns: a step
\* that can be taken is taken.
LiveSpec == Spec /\ WF_vars(Next)

\* ------------------------------------------------------------------------
\* Reading the histories
\* ------------------------------------------------------------------------

Last(q) == q[Len(q)]

RECURSIVE PullsBefore(_)
\* the number of calls made to the source before the i-th call of Token
PullsBefore(i) == IF i <= 1 THEN 0 ELSE PullsBefore(i - 1) + calls[i - 1].pulls

\* what the source returned to the first and to the last call made to it by
\* the i-th call of Token (which made at least one)
FirstPull(i) == pulled[PullsBefore(i) + 1]

LastPull(i) == pulled[PullsBefore(i) + calls[i].pulls]

\* the i-th call of Token found an object, or an array, on top of the stack
OnObject(i) == Len(calls[i].was) > 0 /\ Top(calls[i].was) = typObject

OnArray(i) == Len(calls[i].was) > 0 /\ Top(calls[i].was) = typArray

\* the i-th call of Token pulled a token and dispatched token tk as a value
Dispatched(i, tk) ==
    /\ calls[i].pulls > 0
    /\ LastPull(i) = SrcTok(tk)
    /\ (OnObject(i) /\ tk # ObjClose => calls[i].pulls = 2)

\* the stack the i-th call of Token left
StackAfter(i) == IF i < Len(calls) THEN calls[i + 1].was ELSE types

\* the XML tokens Token has returned, in order
Emitted ==
    LET ok == SelectSeq(calls, LAMBDA r : r.err = NoErr)
    IN [i \in 1..Len(ok) |-> ok[i].tok]

\* the JSON tokens the source has delivered, in order
JsonTokens ==
    LET ok == SelectSeq(pulled, LAMBDA r : r.err = NoErr)
    IN [i \in 1..Len(ok) |-> ok[i].tok]

\* the source has signalled end-of-stream to Token
AtEOF == Len(calls) > 0 /\ Last(calls).err = EOF

CountOf(q, t) == Cardinality({i \in 1..Len(q) : q[i].t = t})

\* Well-formed JSON token sequences: a stream of complete values.  Each
\* operator returns the index after what it read, or 0.
ScalarKinds == {KBool, KFloat, KNumber, KString, KNil}

RECURSIVE ReadValue(_, _), ReadMembers(_, _), ReadElements(_, _), ReadStream(_, _)
ReadValue(q, i) ==
    IF i = 0 \/ i > Len(q) THEN 0
    ELSE IF q[i] = ObjOpen THEN ReadMembers(q, i + 1)
    ELSE IF q[i] = ArrOpen THEN ReadElements(q, i + 1)
    ELSE IF q[i].k \in ScalarKinds THEN i + 1
    ELSE 0

ReadMembers(q, i) ==
    IF i = 0 \/ i > Len(q) THEN 0
    ELSE IF q[i] = ObjClose THEN i + 1
    ELSE IF q[i].k = KString THEN ReadMembers(q, ReadValue(q, i + 1))
    ELSE 0

ReadElements(q, i) ==
    IF i = 0 \/ i > Len(q) THEN 0
    ELSE IF q[i] = ArrClose THEN i + 1
    ELSE ReadElements(q, ReadValue(q, i))

ReadStream(q, i) ==
    IF i = 0 THEN FALSE
    ELSE IF i > Len(q) THEN TRUE
    ELSE ReadStream(q, ReadValue(q, i))

WellFormed(q) == ReadStream(q, 1)

RECURSIVE Unmatched(_, _, _)
\* The names of the start-elements of q[i..] and of `open` left unmatched
\* when every end-element closes the most recent unmatched start-element;
\* <<"mismatch">> when some end-element does not name that start-element.
Unmatched(q, i, open) ==
    IF i > Len(q) THEN open
    ELSE IF q[i].t = "StartElement" THEN Unmatched(q, i + 1, Append(open, q[i].name))
    ELSE IF q[i].t = "EndElement"
         THEN IF Len(open) > 0 /\ Last(open) = q[i].name
              THEN Unmatched(q, i + 1, SubSeq(open, 1, Len(open) - 1))
              ELSE <<"mismatch">>
    ELSE Unmatched(q, i + 1, open)

\* ------------------------------------------------------------------------
\* The documented example (convert.go:15-29, README):
\*   {"Location": {"Longitude": -1.8262, "Latitude": 51.1789}}
\* read by a json.Decoder, which delivers each number as a float64 or, after
\* UseNumber, as a json.Number.
\* ------------------------------------------------------------------------

Location == <<"L", "o", "c", "a", "t", "i", "o", "n">>

Longitude == <<"L", "o", "n", "g", "i", "t", "u", "d", "e">>

Latitude == <<"L", "a", "t", "i", "t", "u", "d", "e">>

LongitudeText == <<"-", "1", ".", "8", "2", "6", "2">>

LatitudeText == <<"5", "1", ".", "1", "7", "8", "9">>

ExampleDoc(lon, lat) ==
    <<ObjOpen, JString(Location), ObjOpen,
      JString(Longitude), lon, JString(Latitude), lat,
      ObjClose, ObjClose>>

ExampleDocs ==
    {ExampleDoc(lon, lat) :
        lon \in {JFloat(TRUE, 18262, -4), JNumber(LongitudeText)},
        lat \in {JFloat(FALSE, 511789, -4), JNumber(LatitudeText)}}

\* What a decoder reading the example returns after it has delivered q: the
\* next token of the document, io.EOF at its end, or at any time the error
\* of its reader.
DocResults(q) ==
    {SrcTok(d[Len(q) + 1]) :
        d \in {e \in ExampleDocs : Len(e) > Len(q) /\ SubSeq(e, 1, Len(q)) = q}}
    \cup (IF q \in ExampleDocs THEN {SrcErr(EOF)} ELSE {})
    \cup {SrcErr(ErrSource)}

\* one turn of Convert's loop up to the test of Token's error, with a source
\* that reads the example
CallExample ==
    \E r1 \in DocResults(JsonTokens) :
        \E r2 \in (IF r1.err # NoErr THEN {r1} ELSE DocResults(Append(JsonTokens, r1.tok))) :
            TokenStep(r1, r2)

NextExample == CallExample \/ EncodeOk \/ EncodeFail

SpecExample == Init /\ [][NextExample]_vars

\* ------------------------------------------------------------------------
\* Claims
\* ------------------------------------------------------------------------

\* C1: when a well-formed JSON token sequence has been driven through Token
\* up to end-of-stream, as many end-elements as start-elements were emitted
\* and every end-element names the most recent unmatched start-element.
C1_BalancedLIFO ==
    (AtEOF /\ WellFormed(JsonTokens)) =>
        /\ CountOf(Emitted, "StartElement") = CountOf(Emitted, "EndElement")
        /\ Unmatched(Emitted, 1, <<>>) = <<>>

\* a scalar nested in a container nested in a container, read to the end
C1_Witness ==
    /\ AtEOF /\ WellFormed(JsonTokens)
    /\ Len(Emitted) >= 5
    /\ Emitted[1].t = "StartElement"
    /\ Emitted[2].t = "StartElement"
    /\ Emitted[1].name # Emitted[2].name

\* C2: a start-element carries the attribute name exactly when the call
\* that returned it found an object on top of the stack, and its value is
\* then the key pulled in that call; otherwise it carries no attribute.
C2_NameAttribute ==
    \A i \in 1..Len(calls) :
        calls[i].tok.t = "StartElement" =>
            calls[i].tok.attr =
                IF OnObject(i) THEN <<Attr("name", FirstPull(i).tok.s)>> ELSE <<>>

\* a member named "a" that is an array, and an element of that array
C2_Witness ==
    /\ Len(calls) >= 3
    /\ calls[2].tok = StartElement("array", <<Attr("name", <<"a">>)>>)
    /\ calls[3].tok.t = "StartElement"
    /\ calls[3].tok.attr = <<>>

\* the text of a boolean, number or string token
TextOf(tk) ==
    CASE tk.k = KBool -> IF tk.b THEN cTrue ELSE cFalse
      [] tk.k = KFloat -> FormatFloat(tk.neg, tk.mant, tk.exp)
      [] OTHER -> tk.s

KindType(k) ==
    CASE k = KBool -> typBool
      [] k = KFloat -> typNumber
      [] k = KNumber -> typNumber
      [] k = KString -> typString
      [] k = KNil -> typNull

\* C3: the call that dispatches a boolean, number or string returns the
\* start-element of its type; the next call returns its text as char-data
\* and the call after that the end-element of the same name, and neither of
\* these two calls pulls from the source.
C3_ScalarThreeTokens ==
    \A i \in 1..Len(calls) :
        LET tk == LastPull(i).tok
        IN (/\ calls[i].err = NoErr
            /\ calls[i].pulls > 0
            /\ tk.k \in {KBool, KFloat, KNumber, KString}
            /\ Dispatched(i, tk)) =>
            /\ calls[i].tok.t = "StartElement"
            /\ calls[i].tok.name = TypeName(KindType(tk.k))
            /\ i + 1 <= Len(calls) =>
                 /\ calls[i + 1].tok = CharData(TextOf(tk))
                 /\ calls[i + 1].err = NoErr
                 /\ calls[i + 1].pulls = 0
            /\ i + 2 <= Len(calls) =>
                 /\ calls[i + 2].tok = EndElement(TypeName(KindType(tk.k)))
                 /\ calls[i + 2].err = NoErr
                 /\ calls[i + 2].pulls = 0
                 /\ StackAfter(i + 2) = calls[i].was

\* the empty string as a member of an object, written out in three calls
C3_Witness ==
    /\ Len(calls) >= 4
    /\ calls[2].tok.name = "string"
    /\ OnObject(2)
    /\ calls[3].tok = CharData(<<>>)
    /\ calls[4].tok = EndElement("string")

\* C4: the call that dispatches a null returns the start-element null and
\* leaves no char-data pending; the next call returns the end-element null
\* without pulling from the source.
C4_NullTwoTokens ==
    /\ (Len(types) > 0 /\ Top(types) = typNull) => data = Nil
    /\ \A i \in 1..Len(calls) :
        (calls[i].err = NoErr /\ Dispatched(i, JNil)) =>
            /\ calls[i].tok.t = "StartElement"
            /\ calls[i].tok.name = "null"
            /\ i + 1 <= Len(calls) =>
                 /\ calls[i + 1].tok = EndElement("null")
                 /\ calls[i + 1].err = NoErr
                 /\ calls[i + 1].pulls = 0
                 /\ StackAfter(i + 1) = calls[i].was

\* a null in an array, opened and closed
C4_Witness ==
    /\ Len(calls) >= 3
    /\ OnArray(2)
    /\ calls[2].tok = StartElement("null", <<>>)
    /\ calls[3].tok = EndElement("null")

\* the i-th call of Token pulled token tk in key position of an open object
KeyPull(i, tk) == OnObject(i) /\ calls[i].pulls >= 1 /\ FirstPull(i) = SrcTok(tk)

\* the i-th call of Token pulled token tk as the value that follows a key
ValuePull(i, tk) == OnObject(i) /\ calls[i].pulls = 2 /\ LastPull(i) = SrcTok(tk)

\* the i-th call of Token returned error e and no XML token, and left the stack
FailedWith(i, e) ==
    /\ calls[i].err = e
    /\ calls[i].tok = XNone
    /\ StackAfter(i) = calls[i].was

\* C5 as stated: an array-close delivered while an object is on top of the
\* stack, in key position or after a key, makes Token fail with InvalidToken
\* and return no XML token.
C5_ArrayCloseInObject ==
    \A i \in 1..Len(calls) :
        (KeyPull(i, ArrClose) \/ ValuePull(i, ArrClose)) => FailedWith(i, ErrInvalidToken)

\* C5, amended: an array-close delivered while an object is on top of the
\* stack makes Token fail and return no XML token: with InvalidToken when it
\* follows a key, with InvalidKey when it comes in key position.
C5_ArrayCloseInObjectByPosition ==
    \A i \in 1..Len(calls) :
        /\ ValuePull(i, ArrClose) => FailedWith(i, ErrInvalidToken)
        /\ KeyPull(i, ArrClose) => FailedWith(i, ErrInvalidKey) /\ calls[i].pulls = 1

\* an array-close after the key "a" of an open object
C5_Witness ==
    /\ Len(calls) = 2
    /\ ValuePull(2, ArrClose)
    /\ FirstPull(2) = SrcTok(JString(<<"a">>))
    /\ pc = "done"

\* C6: a token pulled in key position of an open object that is neither a
\* string nor the object-close makes Token fail with InvalidKey, return no
\* XML token and pull no second token.
C6_NonStringKey ==
    \A i \in 1..Len(calls) :
        LET r == FirstPull(i)
        IN (/\ calls[i].pulls >= 1
            /\ r.err = NoErr
            /\ KeyPull(i, r.tok)
            /\ r.tok.k # KString
            /\ r.tok # ObjClose) =>
            /\ FailedWith(i, ErrInvalidKey)
            /\ calls[i].pulls = 1

\* a numeric literal in key position of an object nested in an array
C6_Witness ==
    /\ Len(calls) = 3
    /\ KeyPull(3, JNumber(<<"1", ".", "5", "0">>))
    /\ calls[3].err = ErrInvalidKey
    /\ pc = "done"

\* C7: Convert passes the tokens Token returns to EncodeToken in the order
\* produced, one call of EncodeToken after each successful call of Token; it
\* returns nil when Token signals end-of-stream; the first failure of Token
\* or of EncodeToken is the last call Convert makes and is what it returns.
C7_ConvertLoop ==
    /\ \A j \in 1..Len(sink) : sink[j].tok = Emitted[j]
    /\ Len(sink) = IF pc = "encode" THEN Len(Emitted) - 1 ELSE Len(Emitted)
    /\ \A i \in 1..Len(calls) : calls[i].err # NoErr => i = Len(calls) /\ pc = "done"
    /\ \A j \in 1..Len(sink) : sink[j].err # NoErr => j = Len(sink) /\ pc = "done"
    /\ \A k \in 1..Len(pulled) : pulled[k].err # NoErr => k = Len(pulled) /\ pc = "done"
    /\ pc = "done" =>
         \/ AtEOF /\ result = NoErr
         \/ Last(calls).err \notin {NoErr, EOF} /\ result = Last(calls).err
         \/ /\ Last(calls).err = NoErr
            /\ Len(sink) = Len(calls)
            /\ Last(sink).err # NoErr
            /\ result = Last(sink).err

\* the encoder fails on the third token; Convert has returned that failure
C7_Witness ==
    /\ pc = "done"
    /\ Len(sink) = 3
    /\ Last(sink).err = ErrSink
    /\ result = ErrSink
    /\ Len(calls) = 3

\* C8 as stated: when Convert has returned nil the nesting stack is empty
\* and no char-data is pending.
C8_TerminalOnSuccess ==
    (pc = "done" /\ result = NoErr) => (types = <<>> /\ data = Nil)

\* C9 as stated: an object-close or array-close pulled right after a member
\* key makes Token fail with InvalidToken or InvalidKey and return no XML
\* token.
C9_CloseAfterKey ==
    \A i \in 1..Len(calls) :
        (ValuePull(i, ObjClose) \/ ValuePull(i, ArrClose)) =>
            /\ calls[i].err \in {ErrInvalidToken, ErrInvalidKey}
            /\ calls[i].tok = XNone

\* C10: an object-close or array-close pulled with an empty stack, and an
\* object-close pulled with an array on top, make Token fail with
\* InvalidToken, return no XML token and leave the stack as it was.
C10_UnmatchedClose ==
    \A i \in 1..Len(calls) :
        (/\ calls[i].pulls >= 1
         /\ \/ calls[i].was = <<>> /\ LastPull(i) \in {SrcTok(ObjClose), SrcTok(ArrClose)}
            \/ OnArray(i) /\ LastPull(i) = SrcTok(ObjClose))
        => FailedWith(i, ErrInvalidToken)

\* an object-close pulled inside an array that is itself inside an array
C10_Witness ==
    /\ Len(calls) = 3
    /\ calls[3].was = <<typArray, typArray>>
    /\ LastPull(3) = SrcTok(ObjClose)
    /\ calls[3].err = ErrInvalidToken
    /\ types = <<typArray, typArray>>

\* C11: whatever error the source returns, to the first pull of a call of
\* Token or to the pull of the value after a key, is the error that call of
\* Token returns, with no XML token.
C11_SourceFailureVerbatim ==
    \A i \in 1..Len(calls) :
        (calls[i].pulls >= 1 /\ LastPull(i).err # NoErr) =>
            /\ calls[i].err = LastPull(i).err
            /\ calls[i].tok = XNone

\* the source fails on the pull of the value that follows the key "a"
C11_Witness ==
    /\ Len(calls) = 2
    /\ calls[2].pulls = 2
    /\ FirstPull(2) = SrcTok(JString(<<"a">>))
    /\ LastPull(2) = SrcErr(ErrSource)
    /\ calls[2].err = ErrSource

NameAttr(key) == <<Attr("name", key)>>

ExampleXML ==
    <<StartElement("object", <<>>),
      StartElement("object", NameAttr(Location)),
      StartElement("number", NameAttr(Longitude)),
      CharData(LongitudeText),
      EndElement("number"),
      StartElement("number", NameAttr(Latitude)),
      CharData(LatitudeText),
      EndElement("number"),
      EndElement("object"),
      EndElement("object")>>

\* C12: converting the documented example emits the documented tokens in
\* order and nothing else, and then reaches end-of-stream: what has been
\* emitted is always the beginning of the documented sequence, and all of it
\* once the source has signalled end-of-stream, which Convert returns as nil;
\* the converter itself reports no error.
C12_DocumentedExample ==
    /\ Len(Emitted) <= Len(ExampleXML)
    /\ Emitted = SubSeq(ExampleXML, 1, Len(Emitted))
    /\ \A i \in 1..Len(calls) : calls[i].err \in {NoErr, EOF, ErrSource}
    /\ AtEOF => (Emitted = ExampleXML /\ result = NoErr)

\* the example read to its end, Longitude delivered as a float64 and Latitude
\* as a json.Number, every token accepted by the encoder
C12_Witness ==
    /\ AtEOF
    /\ Len(sink) = 10
    /\ JsonTokens[5].k = KFloat
    /\ JsonTokens[7].k = KNumber

\* the char-data a fresh converter emits when text t is fed to it as a
\* json.Number: the text of the token returned by its second call of Token
Reconverted(t) ==
    LET o1 == Token([types |-> <<>>, data |-> Nil], SrcTok(JNumber(t)), SrcErr(EOF))
        o2 == Token([types |-> o1.types, data |-> o1.data], SrcErr(EOF), SrcErr(EOF))
    IN o2.tok.text

\* C13: the char-data emitted for a json.Number is the literal's text, character
\* for character, and feeding that emitted text back as a json.Number emits
\* the same text again.
C13_LiteralVerbatim ==
    \A i \in 1..Len(calls) :
        (/\ calls[i].err = NoErr
         /\ calls[i].pulls >= 1
         /\ LastPull(i).tok.k = KNumber
         /\ Dispatched(i, LastPull(i).tok)
         /\ i + 1 <= Len(calls))
        => /\ calls[i + 1].tok.t = "CharData"
           /\ calls[i + 1].tok.text = LastPull(i).tok.s
           /\ Reconverted(calls[i + 1].tok.text) = calls[i + 1].tok.text

\* the literal 1.50, which a float64 would not keep, emitted as a member of
\* an object
C13_Witness ==
    /\ Len(calls) >= 3
    /\ ValuePull(2, JNumber(<<"1", ".", "5", "0">>))
    /\ calls[3].tok = CharData(<<"1", ".", "5", "0">>)

\* the stack is not empty after any emitted XML token but the last
NonEmptyBetween == \A i \in 1..(Len(Emitted) - 1) : StackAfter(i) # <<>>

\* a well-formed sequence that holds exactly one top-level value
SingleValue(q) == Len(q) > 0 /\ ReadValue(q, 1) = Len(q) + 1

\* C14 as stated: in a conversion driven to end-of-stream the stack is empty
\* only before the first XML token and after the last one.
C14_EmptyOnlyAtEnds ==
    AtEOF => (calls[1].was = <<>> /\ NonEmptyBetween)

\* C14, amended: in a conversion, driven to end-of-stream, of a well-formed
\* sequence holding exactly one top-level value the stack is empty before
\* the first XML token and after the last one, and not empty between them.
C14_EmptyOnlyAtEndsOfOneValue ==
    (AtEOF /\ SingleValue(JsonTokens)) =>
        /\ calls[1].was = <<>>
        /\ NonEmptyBetween
        /\ StackAfter(Len(Emitted)) = <<>>

\* an array holding a null, converted to the end
C14_Witness ==
    /\ AtEOF
    /\ JsonTokens = <<ArrOpen, JNil, ArrClose>>
    /\ Len(Emitted) = 4
    /\ types = <<>>

\* the change of the stack depth that goes with an XML token
DepthChange(tok) ==
    CASE tok.t = "StartElement" -> 1
      [] tok.t = "EndElement" -> -1
      [] tok.t = "CharData" -> 0

\* C15: a successful call of Token returns one XML token, a start-element,
\* an end-element or char-data, and changes the depth of the stack by +1, -1
\* or 0 accordingly; so the depth is the number of start-elements emitted
\* less the number of end-elements emitted.
C15_DepthFollowsTokens ==
    /\ \A i \in 1..Len(calls) :
         calls[i].err = NoErr =>
            /\ calls[i].tok.t \in {"StartElement", "EndElement", "CharData"}
            /\ Len(StackAfter(i)) = Len(calls[i].was) + DepthChange(calls[i].tok)
    /\ Len(types) = CountOf(Emitted, "StartElement") - CountOf(Emitted, "EndElement")

\* two arrays and a string open, the string's char-data emitted
C15_Witness ==
    /\ Len(calls) = 4
    /\ calls[4].tok.t = "CharData"
    /\ types = <<typArray, typArray, typString>>

\* the token shapes the switch of Token has no case for: a value of a type
\* it does not list, and a json.Delim that is none of { } [ ]
UnknownShape(tk) ==
    \/ tk.k \notin {KDelim, KBool, KFloat, KNumber, KString, KNil}
    \/ tk.k = KDelim /\ tk.s \notin {<<"{">>, <<"}">>, <<"[">>, <<"]">>}

\* C16: a token of a shape that is none of the delimiters { } [ ], bool,
\* float64, json.Number, string or nil, dispatched as a value, makes Token fail
\* with UnknownToken and return no XML token.
C16_UnknownToken ==
    \A i \in 1..Len(calls) :
        LET r == LastPull(i)
        IN (/\ calls[i].pulls > 0
            /\ r.err = NoErr
            /\ UnknownShape(r.tok)
            /\ Dispatched(i, r.tok)) => FailedWith(i, ErrUnknownToken)

\* a json.Delim(':') pulled as the value of the key "a"
C16_Witness ==
    /\ Len(calls) = 2
    /\ ValuePull(2, JDelim(":"))
    /\ calls[2].err = ErrUnknownToken

\* The states of the state-machine summary, read off the converter's fields.
MachineState ==
    IF data # Nil THEN "HasPendingData"
    ELSE IF Len(types) > 0 /\ Top(types) \notin {typObject, typArray} THEN "AwaitingClose"
    ELSE "Idle"

\* this step is a call of Token that returns an XML token
TokenReturns == Len(calls') = Len(calls) + 1 /\ Last(calls').err = NoErr

\* C17 as stated: the converter starts Idle with an empty stack and changes
\* state only from Idle to AwaitingClose, from AwaitingClose to
\* HasPendingData, and from HasPendingData to Idle or AwaitingClose.
C17_StateOrder ==
    /\ (MachineState = "Idle" /\ types = <<>>)
    /\ [][MachineState' # MachineState =>
            <<MachineState, MachineState'>> \in
                {<<"Idle", "AwaitingClose">>,
                 <<"AwaitingClose", "HasPendingData">>,
                 <<"HasPendingData", "Idle">>,
                 <<"HasPendingData", "AwaitingClose">>}]_vars

\* C17, amended: the converter starts Idle with an empty stack.  A call of
\* Token that returns a token moves it from Idle to HasPendingData (a
\* boolean, number or string was opened), from Idle to AwaitingClose (a null
\* was opened) or leaves it Idle (a container was opened or closed); from
\* HasPendingData to AwaitingClose (the char-data was emitted); from
\* AwaitingClose to Idle (the end-element was emitted).  Nothing else changes
\* its state.
C17_StateOrderAsCoded ==
    /\ (MachineState = "Idle" /\ types = <<>>)
    /\ [][IF TokenReturns
          THEN CASE MachineState = "Idle" ->
                      \/ MachineState' = "Idle"
                      \/ /\ MachineState' = "HasPendingData"
                         /\ Top(types') \in {typBool, typNumber, typString}
                      \/ /\ MachineState' = "AwaitingClose"
                         /\ Top(types') = typNull
                 [] MachineState = "HasPendingData" -> MachineState' = "AwaitingClose"
                 [] MachineState = "AwaitingClose" -> MachineState' = "Idle"
          ELSE MachineState' = MachineState]_vars

\* a number in an array whose char-data has just been emitted: the converter
\* has gone from Idle through HasPendingData to AwaitingClose
C17_Witness ==
    /\ MachineState = "AwaitingClose"
    /\ Len(calls) = 3
    /\ calls[3].tok.t = "CharData"
    /\ types = <<typArray, typNumber>>

\* C18: every entry of the stack below the top is object or array, and
\* char-data is pending only while the top is boolean, number or string.
C18_ScalarOnlyOnTop ==
    /\ \A k \in 1..(Len(types) - 1) : types[k] \in {typObject, typArray}
    /\ data # Nil => (Len(types) > 0 /\ Top(types) \in {typBool, typNumber, typString})

\* char-data pending for a boolean that is a member of an object in an array
C18_Witness ==
    /\ data = Ptr(cFalse)
    /\ types = <<typArray, typObject, typBool>>

\* C19: a call of Token that returns an error, end-of-stream included,
\* leaves the stack and the pending char-data as they were; of the
\* converter's surroundings only the source has been read further.
C19_FailureLeavesState ==
    [][(Len(calls') = Len(calls) + 1 /\ Last(calls').err # NoErr) =>
          /\ types' = types
          /\ data' = data
          /\ sink' = sink
          /\ Last(calls').tok = XNone
          /\ Len(pulled') > Len(pulled)]_vars

\* an unknown token pulled as the value of a key inside an object inside an
\* array: Token has failed, the two containers are still open
C19_Witness ==
    /\ Len(calls) = 3
    /\ calls[3].err = ErrUnknownToken
    /\ calls[3].pulls = 2
    /\ types = <<typArray, typObject>>
    /\ data = Nil

\* no three calls of Token in a row without a call to the source, and at
\* most three XML tokens emitted for each JSON token delivered
C20_Bounded ==
    /\ \A i \in 1..(Len(calls) - 2) :
         calls[i].pulls > 0 \/ calls[i + 1].pulls > 0 \/ calls[i + 2].pulls > 0
    /\ Len(Emitted) <= 3 * Delivered

\* C20: Token never completes more than two calls in a row without pulling
\* from the source, so with a source that ends after finitely many tokens
\* Convert eventually returns, having emitted at most three XML tokens for
\* each JSON token pulled.
C20_ConvertReturns == []C20_Bounded /\ <>(pc = "done")

\* Convert has returned nil after a source that delivered as many scalars as
\* it may, three XML tokens for each, all accepted by the encoder
C20_Witness ==
    /\ pc = "done"
    /\ result = NoErr
    /\ Delivered = MaxTokens
    /\ Len(sink) = 3 * Delivered

====
